---------------------------- MODULE Spec2Model ----------------------------
(***************************************************************************)
(* A model of forestutils.py: the height field (MapObj), the ground        *)
(* smoother (detect_issues / smooth_ground), the tree segmenter            *)
(* (_tree_components / connected_components) and the tree aggregator       *)
(* (tree_data / all_trees).                                                *)
(*                                                                         *)
(* Lengths are integers in units of 0.05 m, so that every default option   *)
(* of get_args is a whole number: cellsize 0.1 m = 2, grounddepth 0.2 m =  *)
(* 4, slicedepth 0.6 m = 12, and 1.5 * slicedepth = 18.  Heights are exact *)
(* (fixed point); floating-point rounding is not modelled.                 *)
(*                                                                         *)
(* A Python dict is a function whose DOMAIN is the set of its keys; where  *)
(* the iteration order of a dict matters, a sequence of its keys in        *)
(* insertion order is kept beside it.                                      *)
(***************************************************************************)
EXTENDS Integers, Sequences, FiniteSets, TLC

VARIABLES
    pc,                 \* the program's position
    file,               \* self.file: the point stream, a sequence of points
    pos,                \* index of the next point of the stream being read
    cells,              \* keys of self.density in insertion order
    density,            \* self.density
    canopy,             \* self.canopy
    ground,             \* self.ground (the ground_dict of the smoother)
    filtered_density,   \* self.filtered_density
    colours,            \* self.colours (one attribute, "red": a running total)
    key_scale_record,   \* _tree_components: coarse key -> set of fine cells
    com,                \* the dict connected_components works on
    order,              \* tuple(input_dict): the keys of com in insertion order
    idx,                \* position of the outer loop of connected_components
    limit,              \* the interpreter's recursion limit (0: none is hit)
    trees,              \* self.trees: fine cell -> tree label
    records,            \* the records all_trees has yielded, by tree label
    prior,              \* detect_issues: its candidate set
    problematic,        \* smooth_ground: the problematic set
    round,              \* smooth_ground: rounds completed
    run,                \* which run of smooth_ground this is (1 or 2)
    start,              \* the ground map the current run started from
    emptied             \* whether the previous run ended with no problematic cell

mapVars == <<file, pos, cells, density, canopy, filtered_density, colours>>
ccVars  == <<key_scale_record, com, order, idx, limit, trees, records>>
smVars  == <<prior, problematic, round, run, start, emptied>>
vars    == <<pc, ground, mapVars, ccVars, smVars>>

---------------------------------------------------------------------------
(* Options of get_args, in units of 0.05 m.                                *)
CellSize    == 2
JoinedCells == 3
SliceDepth  == 12
GroundDepth == 4
(* smooth_ground: for _ in range(100)                                      *)
SmoothRounds == 100

(* Bounds of the model.                                                    *)
MaxEdits  == 1      \* cells of the sample terrain that Init may overwrite
MaxPoints == 4      \* free points of a stream, after its terrain
MaxDepth  == 2      \* largest recursion limit tried (besides none)

---------------------------------------------------------------------------
(* Helpers.                                                                *)
Abs(n) == IF n < 0 THEN -n ELSE n
Min(S) == CHOOSE m \in S : \A n \in S : m <= n
Max(S) == CHOOSE m \in S : \A n \in S : m >= n
Range(f) == {f[i] : i \in DOMAIN f}
Empty == <<>>       \* dict()

RECURSIVE SumOver(_, _)
SumOver(f, S) ==
    IF S = {} THEN 0
    ELSE LET k == CHOOSE k \in S : TRUE IN f[k] + SumOver(f, S \ {k})

---------------------------------------------------------------------------
(* Grid Quantizer.                                                         *)

(* coords: floor(pos.x / cellsize), floor(pos.y / cellsize).               *)
coords(p) == <<p.x \div CellSize, p.y \div CellSize>>

NeighborOffsets ==
    << <<-1, -1>>, <<-1, 0>>, <<-1, 1>>, <<0, -1>>,
       <<0, 1>>, <<1, -1>>, <<1, 0>>, <<1, 1>> >>

(* neighbors: the eight adjacent keys, in the order the generator yields.  *)
neighbors(key) ==
    [i \in 1..8 |-> <<key[1] + NeighborOffsets[i][1],
                      key[2] + NeighborOffsets[i][2]>>]

---------------------------------------------------------------------------
(* Ground Smoother.                                                        *)

(* adjacent = {ground_dict.get(n) for n in neighbors(k)} minus None, with  *)
(* the keys in `without` left out: a SET of heights.                       *)
adjacent(ground_dict, k, without) ==
    {ground_dict[n] : n \in (Range(neighbors(k)) \cap DOMAIN ground_dict) \ without}

detect_issues_loose(ground_dict, candidates) ==
    {k \in candidates :
        LET adj == adjacent(ground_dict, k, {}) IN
        /\ Cardinality(adj) >= 6
        /\ Cardinality({n \in adj : Abs(ground_dict[k] - n) > 2 * CellSize}) >= 2}

detect_issues(ground_dict, candidates) ==
    {k \in candidates :
        LET adj == adjacent(ground_dict, k, {}) IN
        /\ Cardinality(adj) >= 6
        /\ Cardinality({n \in adj : Abs(ground_dict[k] - n) > 2 * CellSize}) >= 3}

(* The body of the loop of smooth_ground after detect_issues: it reads     *)
(* only cells outside `probs` and writes only cells inside it.             *)
correct(ground_dict, probs) ==
    [k \in DOMAIN ground_dict |->
        IF k \in probs
        THEN LET adj == adjacent(ground_dict, k, probs) IN
             IF adj = {} THEN ground_dict[k] ELSE Min(adj) + 2 * CellSize
        ELSE ground_dict[k]]

RECURSIVE smooth_rounds(_, _, _)
smooth_rounds(ground_dict, probs, n) ==
    IF n = 0 THEN ground_dict
    ELSE LET p == detect_issues(ground_dict, probs) IN
         IF p = {}      \* the loop over problematic has nothing to visit
         THEN smooth_rounds(ground_dict, p, n - 1)
         ELSE smooth_rounds(correct(ground_dict, p), p, n - 1)

smooth_ground(ground_dict) ==
    smooth_rounds(ground_dict, DOMAIN ground_dict, SmoothRounds)

---------------------------------------------------------------------------
(* Tree Segmenter.                                                         *)

(* connected_components.expand, from iteration i of its loop over          *)
(* neighbors(old_key), in a frame at recursion depth `depth`.  The result  *)
(* is the dict as the call leaves it, and whether it left by the           *)
(* RuntimeError of the recursion limit.                                    *)
RECURSIVE expand(_, _, _, _), expand_from(_, _, _, _, _),
          expand_from_global(_, _, _, _, _)

(* expand taking the smallest label of the whole dict where the code takes *)
(* the neighbour's.                                                        *)
expand_from_global(old_key, d, i, depth, lim) ==
    IF i > 8 THEN [com |-> d, raised |-> FALSE]
    ELSE LET key == neighbors(old_key)[i] IN
         IF key \notin DOMAIN d THEN [com |-> d, raised |-> FALSE]
         ELSE IF d[key] = d[old_key]
         THEN expand_from_global(old_key, d, i + 1, depth, lim)
         ELSE IF d[key] < d[old_key]
         THEN expand_from_global(old_key, [d EXCEPT ![old_key] = Min(Range(d))],
                                 i + 1, depth, lim)
         ELSE LET r == expand(key, [d EXCEPT ![key] = d[old_key]], depth + 1, lim) IN
              IF r.raised THEN r
              ELSE expand_from_global(old_key, r.com, i + 1, depth, lim)

expand_from(old_key, d, i, depth, lim) ==
    IF i > 8 THEN [com |-> d, raised |-> FALSE]
    ELSE LET key == neighbors(old_key)[i] IN
         IF key \notin DOMAIN d                    \* com.get(key) is None: return
         THEN [com |-> d, raised |-> FALSE]
         ELSE IF d[key] = d[old_key]               \* continue
         THEN expand_from(old_key, d, i + 1, depth, lim)
         ELSE IF d[key] < d[old_key]               \* com[old_key] = com[key]
         THEN expand_from(old_key, [d EXCEPT ![old_key] = d[key]], i + 1, depth, lim)
         ELSE LET r == expand(key, [d EXCEPT ![key] = d[old_key]], depth + 1, lim) IN
              IF r.raised THEN r
              ELSE expand_from(old_key, r.com, i + 1, depth, lim)

(* A call of expand in a frame deeper than the recursion limit raises      *)
(* before it changes anything; lim = 0 stands for a limit never hit.       *)
expand(old_key, d, depth, lim) ==
    IF lim > 0 /\ depth > lim
    THEN [com |-> d, raised |-> TRUE]
    ELSE expand_from(old_key, d, 1, depth, lim)

(* for key in tuple(input_dict): try: expand(key, input_dict)              *)
(*                               except RuntimeError: continue             *)
RECURSIVE connected_components(_, _, _, _)
connected_components(d, keys, i, lim) ==
    IF i > Len(keys) THEN d
    ELSE connected_components(expand(keys[i], d, 1, lim).com, keys, i + 1, lim)

(* cc_key = XY_Coord(floor(key.x / joinedcells), floor(key.y / joinedcells)) *)
cc_key(key) == <<key[1] \div JoinedCells, key[2] \div JoinedCells>>

(* if self.canopy[key] - self.ground[key] > args.slicedepth                *)
in_slice(cnp, gnd, key) == cnp[key] - gnd[key] > SliceDepth

(* tuple(key_scale_record): the coarse keys in the order the loop over     *)
(* self.density first meets an eligible cell of each.                      *)
RECURSIVE coarse_keys(_, _, _, _, _)
coarse_keys(cell_seq, cnp, gnd, i, acc) ==
    IF i > Len(cell_seq) THEN acc
    ELSE LET key == cell_seq[i] IN
         IF in_slice(cnp, gnd, key) /\ cc_key(key) \notin Range(acc)
         THEN coarse_keys(cell_seq, cnp, gnd, i + 1, Append(acc, cc_key(key)))
         ELSE coarse_keys(cell_seq, cnp, gnd, i + 1, acc)

scale_record(cell_seq, cnp, gnd) ==
    LET keys == coarse_keys(cell_seq, cnp, gnd, 1, <<>>) IN
    [k \in Range(keys) |->
        {s \in Range(cell_seq) : in_slice(cnp, gnd, s) /\ cc_key(s) = k}]

(* trees = {k: i for i, k in enumerate(tuple(key_scale_record))}           *)
enumerate(keys) ==
    [k \in Range(keys) |-> (CHOOSE i \in 1..Len(keys) : keys[i] = k) - 1]

(* return {s: trees[k] for k, v in key_scale_record.items() for s in v}    *)
copy_labels(ksr, d) ==
    [s \in UNION Range(ksr) |-> d[cc_key(s)]]

(* MapObj._tree_components as a whole.                                     *)
tree_components(cell_seq, cnp, gnd, lim) ==
    LET keys == coarse_keys(cell_seq, cnp, gnd, 1, <<>>) IN
    copy_labels(scale_record(cell_seq, cnp, gnd),
                connected_components(enumerate(keys), keys, 1, lim))

(* _tree_components, lines 247-258.                                        *)
BuildKeys ==
    /\ pc = "label"
    /\ key_scale_record' = scale_record(cells, canopy, ground)
    /\ order' = coarse_keys(cells, canopy, ground, 1, <<>>)
    /\ com' = enumerate(order')
    /\ idx' = 1
    /\ pc' = "expand"
    /\ UNCHANGED <<ground, mapVars, smVars, limit, trees, records>>

(* One iteration of the loop of connected_components.                      *)
ExpandKey ==
    /\ pc = "expand"
    /\ idx <= Len(order)
    /\ com' = expand(order[idx], com, 1, limit).com
    /\ idx' = idx + 1
    /\ UNCHANGED <<pc, ground, mapVars, smVars, key_scale_record, order, limit,
                   trees, records>>

(* The loop is over; _tree_components returns the labels of the fine grid. *)
CopyLabels ==
    /\ pc = "expand"
    /\ idx > Len(order)
    /\ trees' = copy_labels(key_scale_record, com)
    /\ pc' = "mapped"
    /\ UNCHANGED <<ground, mapVars, smVars, key_scale_record, com, order, idx,
                   limit, records>>

---------------------------------------------------------------------------
(* The segmenter on its own: a height field whose eligible cells, their    *)
(* insertion order and the recursion limit are drawn by Init.              *)

(* One fine cell in each of the coarse keys (-1, -1), (-1, 0), (-1, 1),    *)
(* (0, 1) and two in (0, 0), which touch one another, and one in coarse    *)
(* key (2, 0), which touches none of them.                                 *)
FineSeq ==
    << <<-3, -3>>, <<-3, 0>>, <<-2, 4>>, <<0, 0>>, <<2, 1>>, <<1, 5>>, <<6, 0>> >>
FineCells == Range(FineSeq)

RECURSIVE Perms(_)
Perms(S) ==
    IF S = {} THEN {<<>>}
    ELSE UNION {{<<x>> \o q : q \in Perms(S \ {x})} : x \in S}

(* The cells of E, coarse key by coarse key in the order kord, then the    *)
(* other cells.                                                            *)
RECURSIVE InKeyOrder(_, _)
InKeyOrder(kord, E) ==
    IF kord = <<>> THEN SelectSeq(FineSeq, LAMBDA s : s \notin E)
    ELSE SelectSeq(FineSeq, LAMBDA s : s \in E /\ cc_key(s) = Head(kord))
         \o InKeyOrder(Tail(kord), E)

InitCC ==
    /\ \E E \in SUBSET FineCells :
       \E kord \in Perms({cc_key(s) : s \in E}) :
          /\ cells = InKeyOrder(kord, E)
          /\ canopy = [s \in FineCells |-> IF s \in E THEN SliceDepth + 1 ELSE SliceDepth]
    /\ ground = [s \in FineCells |-> 0]
    /\ density = [s \in FineCells |-> 2]       \* a lowest and a highest point each
    /\ filtered_density = [s \in FineCells |-> 1]
    /\ colours = Empty
    /\ file = <<>> /\ pos = 0
    /\ limit \in 0..MaxDepth
    /\ pc = "label"
    /\ key_scale_record = Empty /\ com = Empty /\ order = <<>> /\ idx = 0
    /\ trees = Empty /\ records = Empty
    /\ prior = {} /\ problematic = {} /\ round = 0 /\ run = 0
    /\ start = Empty /\ emptied = FALSE

NextCC == BuildKeys \/ ExpandKey \/ CopyLabels

SpecCC == InitCC /\ [][NextCC]_vars

---------------------------------------------------------------------------
(* Height Field, Stream Filters and Tree Aggregator (class MapObj).        *)

(* One iteration of the loop of update_spatial on the maps m.              *)
ingest_misfiled(m, p) ==
    LET i == coords(p) IN
    IF i \notin DOMAIN m.density
    THEN [cells |-> Append(m.cells, i),
          density |-> m.density @@ (i :> 1),
          canopy |-> m.canopy @@ (i :> p.z),
          ground |-> m.ground @@ (i :> p.z),
          filtered_density |-> m.filtered_density @@ (i :> 1)]
    ELSE [m EXCEPT !.density[i] = @ + 1,
                   !.ground[i] = IF @ > p.z \/ m.canopy[i] < p.z THEN p.z ELSE @]

ingest(m, p) ==
    LET i == coords(p) IN
    IF i \notin DOMAIN m.density
    THEN [cells |-> Append(m.cells, i),
          density |-> m.density @@ (i :> 1),
          canopy |-> m.canopy @@ (i :> p.z),
          ground |-> m.ground @@ (i :> p.z),
          filtered_density |-> m.filtered_density @@ (i :> 1)]
    ELSE [m EXCEPT !.density[i] = @ + 1,
                   !.ground[i] = IF @ > p.z THEN p.z ELSE @,
                   !.canopy[i] = IF ~(m.ground[i] > p.z) /\ @ < p.z THEN p.z ELSE @]

(* The maps of a fresh MapObj.                                             *)
fresh == [cells |-> <<>>, density |-> Empty, canopy |-> Empty,
          ground |-> Empty, filtered_density |-> Empty]

(* The loop of update_spatial over a whole stream, from fresh maps.        *)
RECURSIVE ingest_all(_, _, _)
ingest_all(m, points, i) ==
    IF i > Len(points) THEN m
    ELSE ingest_all(ingest(m, points[i]), points, i + 1)

is_ground(gnd, point) == point.z - gnd[coords(point)] < GroundDepth
is_lowest(gnd, point) == point.z = gnd[coords(point)]

(* The points save_sparse_cloud writes.                                    *)
save_sparse_cloud(points, gnd, lowest, keep_canopy) ==
    SelectSeq(points, LAMBDA point :
        \/ keep_canopy /\ ~is_ground(gnd, point)
        \/ lowest /\ is_lowest(gnd, point))

(* data['height'] > 1.5 * args.slicedepth                                  *)
tall_enough_or_equal(data) == 2 * data.height >= 3 * SliceDepth
tall_enough(data) == 2 * data.height > 3 * SliceDepth

(* tree_data(keys), where `last` is the key its loop over the set `keys`   *)
(* visits last.  A quotient a / b is kept as the pair <<a, b>>.  The        *)
(* position fields, which go through the utm library, are left out.        *)
tree_data(keys, last, cnp, gnd, dens, fdens, cols) ==
    [height |-> Max({0} \cup {cnp[k] - gnd[k] : k \in keys}),
     area |-> Cardinality(keys) * CellSize * CellSize,
     base_altitude |-> <<SumOver(gnd, keys), Cardinality(keys)>>,
     point_count |-> SumOver(dens, keys),
     red |-> <<cols[last], fdens[last]>>]

(* keys[v] of all_trees: the cells of tree v.                              *)
members(t, v) == {k \in DOMAIN t : t[k] = v}

(* update_spatial: the loop over the stream.                               *)
Ingest ==
    /\ pc = "spatial"
    /\ pos <= Len(file)
    /\ LET m == ingest([cells |-> cells, density |-> density, canopy |-> canopy,
                        ground |-> ground, filtered_density |-> filtered_density],
                       file[pos]) IN
       /\ cells' = m.cells
       /\ density' = m.density
       /\ canopy' = m.canopy
       /\ ground' = m.ground
       /\ filtered_density' = m.filtered_density
    /\ pos' = pos + 1
    /\ UNCHANGED <<pc, file, colours, ccVars, smVars>>

(* update_spatial: smooth_ground(self.ground)                              *)
SmoothGround ==
    /\ pc = "spatial"
    /\ pos > Len(file)
    /\ ground' = smooth_ground(ground)
    /\ pc' = "label"
    /\ UNCHANGED <<mapVars, ccVars, smVars>>

(* save_sparse_cloud with lowest and canopy true: self.file = new_fname    *)
SaveSparseCloud ==
    /\ pc = "mapped"
    /\ file' = save_sparse_cloud(file, ground, TRUE, TRUE)
    /\ pc' = "sparse"
    /\ UNCHANGED <<ground, pos, cells, density, canopy, filtered_density, colours,
                   ccVars, smVars>>

(* update_colours opens the stream.                                        *)
BeginColours ==
    /\ pc \in {"mapped", "sparse"}
    /\ pos' = 1
    /\ pc' = "colours"
    /\ UNCHANGED <<ground, file, cells, density, canopy, filtered_density, colours,
                   ccVars, smVars>>

(* update_colours: one iteration of its loop.                              *)
Accumulate ==
    /\ pc = "colours"
    /\ pos <= Len(file)
    /\ LET p == file[pos]
           i == coords(p) IN
       IF is_ground(ground, p)
       THEN UNCHANGED <<filtered_density, colours>>
       ELSE /\ filtered_density' = [filtered_density EXCEPT ![i] = @ + 1]
            /\ colours' = IF i \notin DOMAIN colours
                          THEN colours @@ (i :> p.red)
                          ELSE [colours EXCEPT ![i] = @ + p.red]
    /\ pos' = pos + 1
    /\ UNCHANGED <<pc, ground, file, cells, density, canopy, ccVars, smVars>>

(* all_trees, read to its end by stream_analysis.  self.colours[k] of a    *)
(* cell with no accumulated point is a KeyError.                           *)
AllTrees ==
    /\ pc = "colours"
    /\ pos > Len(file)
    /\ IF \E k \in DOMAIN trees : k \notin DOMAIN colours
       THEN pc' = "KeyError" /\ UNCHANGED records
       ELSE /\ \E last \in [Range(trees) -> DOMAIN trees] :
                 /\ \A v \in Range(trees) : last[v] \in members(trees, v)
                 /\ LET data == [v \in Range(trees) |->
                                    tree_data(members(trees, v), last[v], canopy,
                                              ground, density, filtered_density,
                                              colours)] IN
                    records' = [v \in {w \in Range(trees) : tall_enough(data[w])}
                                  |-> data[v]]
            /\ pc' = "done"
    /\ UNCHANGED <<ground, mapVars, smVars, key_scale_record, com, order, idx,
                   limit, trees>>

---------------------------------------------------------------------------
(* The whole pipeline over a stream drawn by Init.                         *)

Point(px, py, pz, r) == [x |-> px, y |-> py, z |-> pz, red |-> r]

(* One point in each of the 8 cells around cell (0, 0).                    *)
RingPoints ==
    << Point(-2, -1, 6, 0), Point(-1, 1, 8, 0),  Point(-2, 3, 10, 0),
       Point(0, -2, 12, 0),                      Point(1, 2, 14, 0),
       Point(2, -1, 16, 0), Point(3, 0, 18, 0),  Point(2, 3, 22, 0) >>

(* Points of cell (0, 0) and of cell (2, 0), which share a coarse key.     *)
SamplePoints ==
    {Point(1, 0, pz, 1) : pz \in {0, 18, 20}} \cup
    {Point(4, 1, pz, 2) : pz \in {0, 18, 20}}

Streams ==
    {prefix \o suffix :
        prefix \in {<<>>, RingPoints},
        suffix \in UNION {[1..n -> SamplePoints] : n \in 0..MaxPoints}}

Init ==
    /\ file \in Streams
    /\ pc = "spatial"
    /\ pos = 1
    /\ cells = <<>>
    /\ density = Empty /\ canopy = Empty /\ ground = Empty
    /\ filtered_density = Empty /\ colours = Empty
    /\ key_scale_record = Empty /\ com = Empty /\ order = <<>> /\ idx = 0
    /\ limit = 0
    /\ trees = Empty /\ records = Empty
    /\ prior = {} /\ problematic = {} /\ round = 0 /\ run = 0
    /\ start = Empty /\ emptied = FALSE

Next ==
    \/ Ingest \/ SmoothGround
    \/ BuildKeys \/ ExpandKey \/ CopyLabels
    \/ SaveSparseCloud \/ BeginColours \/ Accumulate \/ AllTrees

Spec == Init /\ [][Next]_vars

---------------------------------------------------------------------------
(* The smoother on its own, round by round, on a ground map.               *)

(* A sample terrain of 4 x 3 cells; Init overwrites or removes up to       *)
(* MaxEdits of the cells in EditCells.                                     *)
SampleTerrain ==
    (<<0, 0>> :> 0)  @@ (<<0, 1>> :> 2)  @@ (<<0, 2>> :> 4)  @@
    (<<1, 0>> :> 6)  @@ (<<1, 1>> :> 14) @@ (<<1, 2>> :> 8)  @@
    (<<2, 0>> :> 14) @@ (<<2, 1>> :> 14) @@ (<<2, 2>> :> 8)  @@
    (<<3, 0>> :> 10) @@ (<<3, 1>> :> 12) @@ (<<3, 2>> :> 16)
EditCells  == {<<1, 1>>, <<2, 1>>, <<0, 0>>, <<2, 2>>, <<1, 0>>, <<3, 1>>}
EditValues == {0, 2, 4, 6, 8, 10, 12, 14, 16}

Overwritten(h) == {[h EXCEPT ![c] = v] : c \in EditCells \cap DOMAIN h, v \in EditValues}
Removed(h)     == {[k \in DOMAIN h \ {c} |-> h[k]] : c \in EditCells \cap DOMAIN h}

RECURSIVE Edited(_, _)
Edited(g, n) ==
    IF n = 0 THEN {g}
    ELSE {g} \cup UNION {Overwritten(h) \cup Removed(h) : h \in Edited(g, n - 1)}

SmoothIdle ==
    /\ file = <<>> /\ pos = 0 /\ cells = <<>>
    /\ density = Empty /\ canopy = Empty
    /\ filtered_density = Empty /\ colours = Empty
    /\ key_scale_record = Empty /\ com = Empty /\ order = <<>>
    /\ idx = 0 /\ limit = 0 /\ trees = Empty /\ records = Empty

InitSmooth ==
    /\ SmoothIdle
    /\ ground \in Edited(SampleTerrain, MaxEdits)
    /\ pc = "detect"
    /\ prior = {}
    /\ problematic = DOMAIN ground      \* problematic = set(ground_dict)
    /\ round = 0
    /\ run = 1
    /\ start = ground
    /\ emptied = FALSE

(* problematic = detect_issues(ground_dict, problematic)                   *)
Detect ==
    /\ pc = "detect"
    /\ prior' = problematic
    /\ problematic' = detect_issues(ground, problematic)
    /\ pc' = "correct"
    /\ UNCHANGED <<ground, round, run, start, emptied, mapVars, ccVars>>

(* for key in problematic: ground_dict[key] = min(adjacent) + 2*cellsize   *)
Correct ==
    /\ pc = "correct"
    /\ ground' = correct(ground, problematic)
    /\ round' = round + 1
    /\ pc' = IF round + 1 = SmoothRounds THEN "smoothed" ELSE "detect"
    /\ UNCHANGED <<prior, problematic, run, start, emptied, mapVars, ccVars>>

(* smooth_ground called a second time on the map the first run left.       *)
SmoothAgain ==
    /\ pc = "smoothed"
    /\ run = 1
    /\ run' = 2
    /\ start' = ground
    /\ emptied' = (problematic = {})
    /\ problematic' = DOMAIN ground
    /\ round' = 0
    /\ pc' = "detect"
    /\ UNCHANGED <<ground, prior, mapVars, ccVars>>

NextSmooth == Detect \/ Correct \/ SmoothAgain

SpecSmooth == InitSmooth /\ [][NextSmooth]_vars

---------------------------------------------------------------------------
(* Claims about the height field and the tree aggregator.                  *)

(* C2 (as stated): for every occupied cell, ground <= canopy in every      *)
(* state of the height field, also once smooth_ground has rewritten the    *)
(* ground heights.                                                         *)
C2_GroundBelowCanopyAlways ==
    \A k \in DOMAIN ground : ground[k] <= canopy[k]

(* C2 (amended): for every occupied cell, ground <= canopy after each      *)
(* point ingested by the loop of update_spatial, up to the call of         *)
(* smooth_ground.                                                          *)
C2_GroundBelowCanopyInPass1 ==
    pc = "spatial" => \A k \in DOMAIN ground : ground[k] <= canopy[k]

C2_Witness ==
    /\ pc = "spatial" /\ pos > Len(file)
    /\ \E k \in DOMAIN ground : density[k] >= 3 /\ ground[k] < canopy[k]

(* C3: for every occupied cell, filteredDensity <= rawDensity in every     *)
(* state, the states of pass 2 (update_colours) included.                  *)
C3_FilteredDensityAtMostRaw ==
    \A k \in DOMAIN density : filtered_density[k] <= density[k]

(* C4: when the sparse cloud has been written, ingesting its points into   *)
(* a fresh height field gives every cell the ground and canopy height the  *)
(* original height field holds.                                            *)
C4_SparseRoundTrip ==
    pc = "sparse" =>
        LET again == ingest_all(fresh, file, 1) IN
        /\ again.ground = ground
        /\ again.canopy = canopy

(* C7: for each tree record, the reported mean of the attribute equals     *)
(* the sum of the member cells' totals divided by the sum of the member    *)
(* cells' filtered densities.                                              *)
C7_MeanIsTotalOverFilteredDensity ==
    pc = "done" =>
        \A v \in DOMAIN records :
            records[v].red[1] * SumOver(filtered_density, members(trees, v))
                = SumOver(colours, members(trees, v)) * records[v].red[2]

(* The height of tree v: the largest canopy - ground of its cells.         *)
TreeHeight(v) == Max({canopy[k] - ground[k] : k \in members(trees, v)})

(* C8: all_trees yields a record for a tree label if and only if the       *)
(* tree's height is strictly greater than 1.5 * sliceDepth.                *)
C8_EmittedIffTallerThanThreshold ==
    pc = "done" =>
        \A v \in Range(trees) :
            v \in DOMAIN records <=> 2 * TreeHeight(v) > 3 * SliceDepth

C8_Witness ==
    /\ pc = "done"
    /\ \E v \in Range(trees) :
          2 * TreeHeight(v) = 3 * SliceDepth /\ v \notin DOMAIN records

---------------------------------------------------------------------------
(* Claims about the ground smoother.                                       *)

(* The rule of detect_issues, stated for one cell of a ground map: at      *)
(* least 6 distinct heights among its present neighbours, at least 3 of    *)
(* them more than 2 * cellsize away from the cell's own height.            *)
Anomalous(g, k) ==
    LET hs == {g[n] : n \in Range(neighbors(k)) \cap DOMAIN g} IN
    /\ Cardinality(hs) >= 6
    /\ Cardinality({h \in hs : h - g[k] > 2 * CellSize \/ g[k] - h > 2 * CellSize}) >= 3
Stable(g) == \A k \in DOMAIN g : ~Anomalous(g, k)

(* C5 (as stated): if a run of smooth_ground ended with an empty           *)
(* problematic set, a second run on the resulting map changes no cell's    *)
(* ground height.                                                          *)
C5_SecondRunNoOp == (run = 2 /\ emptied) => ground = start

(* C5 (amended): if no cell of a ground map is anomalous, that is, if      *)
(* detect_issues over all its cells finds nothing, then a run of           *)
(* smooth_ground on it changes no cell's ground height, in any round.      *)
C5_StableGridNoOp == Stable(start) => ground = start

C5_Witness ==
    /\ pc = "smoothed" /\ run = 2 /\ round = SmoothRounds
    /\ Stable(start)
    /\ \E k \in DOMAIN start : Cardinality(adjacent(start, k, {})) >= 6

(* C9: detect_issues flags a candidate cell exactly when all 8 of its      *)
(* neighbours are present in the ground layer and at least 3 of those      *)
(* neighbour cells have a ground height differing from the cell's by more  *)
(* than 2 * cellSize, counted per neighbour cell.                          *)
C9_FlaggedIffEightPresentThreeSteep ==
    pc = "correct" =>
        problematic =
            {k \in prior :
                /\ \A i \in 1..8 : neighbors(k)[i] \in DOMAIN ground
                /\ Cardinality({i \in 1..8 :
                       Abs(ground[k] - ground[neighbors(k)[i]]) > 2 * CellSize}) >= 3}

---------------------------------------------------------------------------
(* Claims about the tree segmenter.                                        *)

Adjacent8(a, b) == a # b /\ Abs(a[1] - b[1]) <= 1 /\ Abs(a[2] - b[2]) <= 1

(* The 8-connected region of `keys` that holds the keys of S.              *)
RECURSIVE Region(_, _)
Region(keys, S) ==
    LET N == S \cup {n \in keys : \E m \in S : Adjacent8(m, n)} IN
    IF N = S THEN S ELSE Region(keys, N)

InitialLabel(k) == (CHOOSE i \in 1..Len(order) : order[i] = k) - 1

Eligible == {s \in Range(cells) : canopy[s] - ground[s] > SliceDepth}

(* The partition of the labelled cells a label map induces.                *)
Partition(t) == {{s \in DOMAIN t : t[s] = t[r]} : r \in DOMAIN t}

(* The cells of a sequence, sorted by x and then y.                        *)
Before(a, b) == a[1] < b[1] \/ (a[1] = b[1] /\ a[2] <= b[2])
RECURSIVE SortedCells(_)
SortedCells(S) ==
    IF S = {} THEN <<>>
    ELSE LET m == CHOOSE m \in S : \A n \in S : Before(m, n) IN
         <<m>> \o SortedCells(S \ {m})

(* C1: after segmentation every eligible fine cell carries the minimum     *)
(* initial label of the 8-connected region of occupied coarse keys its     *)
(* coarse key lies in, so cells of adjacent coarse keys share one label.   *)
C1_RegionSharesMinLabel ==
    pc = "mapped" =>
        \A s \in Eligible :
            /\ s \in DOMAIN trees
            /\ trees[s] = Min({InitialLabel(k) :
                                 k \in Region(DOMAIN com, {cc_key(s)})})

(* C6: the partition of the fine cells that the final labels induce is     *)
(* the same for every order in which the coarse keys are enumerated: it    *)
(* equals the partition obtained when the cells are enumerated sorted.     *)
C6_PartitionIndependentOfOrder ==
    pc = "mapped" =>
        Partition(trees) =
            Partition(tree_components(SortedCells(Range(cells)), canopy, ground, limit))

(* C10: whatever the recursion limit, the final labelling equals the one   *)
(* obtained when no limit is hit.                                          *)
C10_LimitDoesNotChangeLabels ==
    pc = "mapped" => trees = tree_components(cells, canopy, ground, 0)

(* The initial labels of the keys of the region a coarse key lies in.     *)
RegionLabels(k) == {InitialLabel(n) : n \in Region(DOMAIN com, {k})}

(* C11: at every step of connected_components each coarse key's label is   *)
(* the initial label of a coarse key of its own 8-connected region, and a  *)
(* step never raises a label; so in the final map two eligible fine cells  *)
(* whose coarse keys lie in different regions never share a tree label,    *)
(* and the label map holds the eligible cells and no other.                *)
C11_NeverMergesUnconnected ==
    /\ [](pc \in {"expand", "mapped"} =>
            \A k \in DOMAIN com : com[k] \in RegionLabels(k))
    /\ [][pc = "expand" => \A k \in DOMAIN com : com'[k] <= com[k]]_vars
    /\ [](pc = "mapped" =>
            /\ DOMAIN trees = Eligible
            /\ \A s, t \in DOMAIN trees :
                  cc_key(t) \notin Region(DOMAIN com, {cc_key(s)})
                      => trees[s] # trees[t])

(* Two regions, a label lowered by propagation, and a cell that fails the  *)
(* slice-depth threshold, in a finished segmentation.                      *)
C11_Witness ==
    /\ pc = "mapped"
    /\ \E s, t \in DOMAIN trees :
          cc_key(t) \notin Region(DOMAIN com, {cc_key(s)})
    /\ \E k \in DOMAIN com : com[k] < InitialLabel(k)
    /\ \E s \in Range(cells) : s \notin Eligible /\ s \notin DOMAIN trees

=============================================================================
